---- MODULE Spec2Model ----
(***************************************************************************)
(* The container export pipeline of components/pkg-export-container:       *)
(* export_for_cli_matches and export (src/lib.rs), as a state machine.     *)
(* One behaviour is one call of export_for_cli_matches; pc is the line the *)
(* call has reached, calls is the history of the operations it has invoked *)
(* on its collaborators (UI, BuildSpec, DockerBuildRoot, ContainerImage,   *)
(* Credentials) with the result each returned.                             *)
(*                                                                         *)
(* The collaborators' bodies (build.rs, docker.rs) are outside the modelled*)
(* source: each of their calls returns Ok or Err nondeterministically.     *)
(* How lib.rs reacts to the result (`?`, if, match) is modelled line by    *)
(* line.                                                                   *)
(***************************************************************************)
EXTENDS Integers, Sequences, FiniteSets, TLC

VARIABLES
    pc,            \* position in export_for_cli_matches / export
    matches,       \* the clap::ArgMatches the call was given
    naming,        \* the Naming built at line 213
    calls,         \* history: sequence of [op, res] in call order; res is
                   \* "Ok", "Err" (for create: the error), or "Panic"
    buildRoot,     \* "none" | "live" | "destroyed": the temporary workspace
    image,         \* "none" | "built" | "removed": the image in the engine's store
    uploaded,      \* number of tags of the image uploaded by push
    report,        \* TRUE once create_report has written the report
    credentials,   \* NoCredentials or the Credentials built at line 221
    tokenExchanges,\* number of get_authorization_token requests sent
    ecrAnswer,     \* what Credentials::new met on the ECR side ("none": not run)
    exportResult,  \* what export returned: "pending" | "Ok" | an error
    cliResult,     \* what export_for_cli_matches returned
    exports,       \* concurrent calls of export: export -> [pc, build_root, result]
    workspaces,    \* the workspaces created so far, by number
    input,         \* argument of a function studied on its own
    output,        \* its result, once applied
    setRole        \* one call of set_role start: [pc, no_prompt, role, calls, result]

\* The state of one call of export_for_cli_matches.
pipeline == <<pc, matches, naming, calls, buildRoot, image, uploaded, report,
              credentials, tokenExchanges, ecrAnswer, exportResult, cliResult>>

\* The state used only when several exports run side by side, when a
\* function is studied on its own, or by set_role start.
aux == <<exports, workspaces, input, output, setRole>>

vars == <<pipeline, aux>>

\* Number of tags the built image carries (the tag list itself is computed in
\* docker.rs from the Naming); bounds the partial uploads a failing push can
\* leave behind.
MaxTags == 2

(***************************************************************************)
(* RegistryType and Naming                                                 *)
(***************************************************************************)
RegistryTypes == {"Amazon", "Azure", "Docker"}

\* Values of the REGISTRY_TYPE argument: absent, the three valid spellings,
\* and one string that is no registry type.
RegistryTypeArgs == {"absent", "amazon", "azure", "docker", "google"}

\* Mutant of RegistryTypeFromStr: the last arm accepts every other string as
\* docker.
RegistryTypeFromStrLenient(value) ==
    CASE value = "amazon" -> [ok |-> TRUE,  val |-> "Amazon"]
      [] value = "azure"  -> [ok |-> TRUE,  val |-> "Azure"]
      [] OTHER            -> [ok |-> TRUE,  val |-> "Docker"]

\* impl FromStr for RegistryType; the Err is InvalidRegistryType(value).
RegistryTypeFromStr(value) ==
    CASE value = "amazon" -> [ok |-> TRUE,  val |-> "Amazon"]
      [] value = "azure"  -> [ok |-> TRUE,  val |-> "Azure"]
      [] value = "docker" -> [ok |-> TRUE,  val |-> "Docker"]
      [] OTHER            -> [ok |-> FALSE, val |-> value]

\* A tag is the sequence of its dash-separated parts: "1.2.0-20200101000000"
\* is <<"1.2.0", "20200101000000">>.  NoTag is value_of("TAG_CUSTOM") = None.
NoTag == <<>>

\* Mutant of NamingNewFromCliMatches: the registry type falls back to Amazon
\* and the latest tag follows NO_TAG_VERSION.
NamingFallsBackToAmazon(m) ==
    LET parsed == IF m.REGISTRY_TYPE = "absent"
                  THEN [ok |-> FALSE, val |-> "absent"]
                  ELSE RegistryTypeFromStr(m.REGISTRY_TYPE)
    IN [latest_tag          |-> ~m.NO_TAG_VERSION,
        version_tag         |-> ~m.NO_TAG_VERSION,
        version_release_tag |-> ~m.NO_TAG_VERSION_RELEASE,
        custom_tag          |-> m.TAG_CUSTOM,
        registry_type       |-> IF parsed.ok THEN parsed.val ELSE "Amazon"]

\* Naming::new_from_cli_matches: value_t!(..).unwrap_or(RegistryType::Docker),
\* and one flag per tag policy, set unless its NO_TAG_ argument is present.
NamingNewFromCliMatches(m) ==
    LET parsed == IF m.REGISTRY_TYPE = "absent"
                  THEN [ok |-> FALSE, val |-> "absent"]
                  ELSE RegistryTypeFromStr(m.REGISTRY_TYPE)
    IN [latest_tag          |-> ~m.NO_TAG_LATEST,
        version_tag         |-> ~m.NO_TAG_VERSION,
        version_release_tag |-> ~m.NO_TAG_VERSION_RELEASE,
        custom_tag          |-> m.TAG_CUSTOM,
        registry_type       |-> IF parsed.ok THEN parsed.val ELSE "Docker"]

(***************************************************************************)
(* Credentials::new                                                        *)
(***************************************************************************)
\* What the ECR side can answer to the one get_authorization_token request.
EcrAnswers == {"HttpClientErr",   \* HttpClient::new() fails
               "RequestErr",      \* get_authorization_token returns Err
               "NoAuthData",      \* authorization_data is None
               "EmptyAuthData",   \* authorization_data is Some(vec![])
               "NoToken",         \* auth_data[0].authorization_token is None
               "Token"}           \* auth_data[0].authorization_token is Some

\* Text is a sequence of bytes; a base64 text is a sequence of positions in
\* the base64 alphabet (0..63), with Pad for '='.
Pad == 64

Colon == 58

\* The REGISTRY_USERNAME and REGISTRY_PASSWORD values tried: "u", "us" and
\* "p", "pw", so that "username:password" has every length modulo 3.
Usernames == {<<117>>, <<117, 115>>}

Passwords == {<<112>>, <<112, 119>>}

\* The authorization_token of an ECR answer that carries one (opaque here).
EcrToken == <<4, 2, 17>>

\* base64::encode
RECURSIVE Base64Encode(_)
Base64Encode(bytes) ==
    IF Len(bytes) = 0 THEN <<>>
    ELSE IF Len(bytes) = 1
    THEN LET n == bytes[1] * 65536
         IN <<n \div 262144, (n \div 4096) % 64, Pad, Pad>>
    ELSE IF Len(bytes) = 2
    THEN LET n == bytes[1] * 65536 + bytes[2] * 256
         IN <<n \div 262144, (n \div 4096) % 64, (n \div 64) % 64, Pad>>
    ELSE LET n == bytes[1] * 65536 + bytes[2] * 256 + bytes[3]
         IN <<n \div 262144, (n \div 4096) % 64, (n \div 64) % 64, n % 64>>
            \o Base64Encode(SubSeq(bytes, 4, Len(bytes)))

\* Mutant of UserColonPassword: format!("{}{}", ..), the separator is lost.
UserPasswordNoColon(username, password) == username \o password

\* format!("{}:{}", username, password)
UserColonPassword(username, password) == username \o <<Colon>> \o password

\* Result of Credentials::new(registry_type, username, password) given the
\* ECR answer.  auth_data[0] on an empty vector is an index out of bounds: a
\* panic.
CredentialsNew(registry_type, username, password, ecr) ==
    IF registry_type = "Amazon"
    THEN CASE ecr = "HttpClientErr" -> [res |-> "Err",   val |-> "HttpClientError"]
           [] ecr = "RequestErr"    -> [res |-> "Err",   val |-> "TokenFetchFailed"]
           [] ecr = "NoAuthData"    -> [res |-> "Err",   val |-> "NoECRTokensReturned"]
           [] ecr = "EmptyAuthData" -> [res |-> "Panic", val |-> "index out of bounds"]
           [] ecr = "NoToken"       -> [res |-> "Err",   val |-> "NoECRTokensReturned"]
           [] OTHER                 -> [res |-> "Ok",    val |-> EcrToken]
    ELSE [res |-> "Ok", val |-> Base64Encode(UserColonPassword(username, password))]

\* Mutant of CallsTokenExchange: the token is requested before the match on
\* the registry type, so for the generic kinds too.
CallsTokenExchangeForAnyKind(registry_type, ecr) ==
    ecr # "HttpClientErr"

\* Whether Credentials::new reaches client.get_authorization_token(..).
CallsTokenExchange(registry_type, ecr) ==
    registry_type = "Amazon" /\ ecr # "HttpClientErr"

(***************************************************************************)
(* Helpers                                                                 *)
(***************************************************************************)
Results == {"Ok", "Err"}

Call(op, res) == calls' = Append(calls, [op |-> op, res |-> res])

\* `?` inside export: an Err ends export, and line 217's `?` ends the caller.
\* A build_root already bound goes out of scope here without a destroy call;
\* what dropping it does to the workspace is not decided in lib.rs, so the
\* workspace is left as it is.
ExportFail(err) ==
    /\ pc' = "done"
    /\ exportResult' = err
    /\ cliResult' = [kind |-> "Err", val |-> err]

\* `?` inside export_for_cli_matches.
CliFail(err) ==
    /\ pc' = "done"
    /\ cliResult' = [kind |-> "Err", val |-> err]

Pending == [kind |-> "pending", val |-> "none"]

\* No Credentials value has been built.
NoCredentials == [kind |-> "none", token |-> <<>>]

(***************************************************************************)
(* Init                                                                    *)
(***************************************************************************)
\* A function studied on its own has not been applied yet.
NotApplied == [done |-> FALSE]

\* No call of set_role start is under way.
NoSetRole == [pc |-> "idle"]

\* The tag policy plays no part in the control flow of lib.rs (the tag list
\* is computed in docker.rs): the pipeline is explored under the default
\* policy, and the policies are explored in SpecNaming.
Matches == [PUSH_IMAGE : BOOLEAN, RM_IMAGE : BOOLEAN,
            REGISTRY_TYPE : RegistryTypeArgs,
            REGISTRY_USERNAME : Usernames, REGISTRY_PASSWORD : Passwords,
            NO_TAG_LATEST : {FALSE}, NO_TAG_VERSION : {FALSE},
            NO_TAG_VERSION_RELEASE : {FALSE}, TAG_CUSTOM : {NoTag}]

Init ==
    /\ pc = "start"
    /\ matches \in Matches
    /\ naming = [registry_type |-> "unset"]
    /\ calls = <<>>
    /\ buildRoot = "none"
    /\ image = "none"
    /\ uploaded = 0
    /\ report = FALSE
    /\ credentials = NoCredentials
    /\ tokenExchanges = 0
    /\ ecrAnswer = "none"
    /\ exportResult = "pending"
    /\ cliResult = Pending
    /\ exports = <<>>
    /\ workspaces = <<>>
    /\ input = "none"
    /\ output = NotApplied
    /\ setRole = NoSetRole

(***************************************************************************)
(* export_for_cli_matches, lines 211-215                                   *)
(***************************************************************************)
\* BuildSpec::new_from_cli_matches(..)?, Naming::new_from_cli_matches,
\* Engine::new_from_cli_matches.
CliSetup ==
    /\ pc = "start"
    /\ \E r \in Results :
        /\ Call("BuildSpec::new_from_cli_matches", r)
        /\ IF r = "Ok"
           THEN /\ naming' = NamingNewFromCliMatches(matches)
                /\ pc' = "export_begin"
                /\ UNCHANGED <<exportResult, cliResult>>
           ELSE /\ CliFail("SpecError")
                /\ UNCHANGED <<naming, exportResult>>
    /\ UNCHANGED <<matches, buildRoot, image, uploaded, report, credentials,
                   tokenExchanges, ecrAnswer>>
    /\ UNCHANGED aux

(***************************************************************************)
(* export, lines 176-192                                                   *)
(***************************************************************************)
\* ui.begin(..)?  (line 182)
ExportBegin ==
    /\ pc = "export_begin"
    /\ \E r \in Results :
        /\ Call("begin", r)
        /\ IF r = "Ok"
           THEN pc' = "export_create" /\ UNCHANGED <<exportResult, cliResult>>
           ELSE ExportFail("UIError")
    /\ UNCHANGED <<matches, naming, buildRoot, image, uploaded, report,
                   credentials, tokenExchanges, ecrAnswer>>
    /\ UNCHANGED aux

\* Mutant of ExportCreate: the `?` after create is lost and export goes on
\* with a workspace whatever create returned.
ExportCreateIgnoresError ==
    /\ pc = "export_create"
    /\ \E r \in {"Ok", "ResolutionError", "BuildRootError"} :
        /\ Call("create", r)
        /\ buildRoot' = "live"
        /\ pc' = "export_from_build_root"
        /\ UNCHANGED <<exportResult, cliResult>>
    /\ UNCHANGED <<matches, naming, image, uploaded, report, credentials,
                   tokenExchanges, ecrAnswer>>
    /\ UNCHANGED aux

\* build_spec.create(ui).await?  (line 184): resolves the references and
\* populates the workspace; Ok hands a BuildRoot to export.
ExportCreate ==
    /\ pc = "export_create"
    /\ \E r \in {"Ok", "ResolutionError", "BuildRootError"} :
        /\ Call("create", r)
        /\ IF r = "Ok"
           THEN /\ buildRoot' = "live"
                /\ pc' = "export_from_build_root"
                /\ UNCHANGED <<exportResult, cliResult>>
           ELSE /\ ExportFail(r)
                /\ UNCHANGED buildRoot
    /\ UNCHANGED <<matches, naming, image, uploaded, report, credentials,
                   tokenExchanges, ecrAnswer>>
    /\ UNCHANGED aux

\* Mutant of ExportFromBuildRoot: a failed from_build_root does not stop the
\* export.
ExportFromBuildRootIgnoresError ==
    /\ pc = "export_from_build_root"
    /\ \E r \in Results :
        /\ Call("from_build_root", r)
        /\ pc' = "export_build"
        /\ UNCHANGED <<exportResult, cliResult>>
    /\ UNCHANGED <<matches, naming, buildRoot, image, uploaded, report,
                   credentials, tokenExchanges, ecrAnswer>>
    /\ UNCHANGED aux

\* DockerBuildRoot::from_build_root(.., ui)?  (line 184): writes the
\* Docker-related files into the workspace.
ExportFromBuildRoot ==
    /\ pc = "export_from_build_root"
    /\ \E r \in Results :
        /\ Call("from_build_root", r)
        /\ IF r = "Ok"
           THEN pc' = "export_build" /\ UNCHANGED <<exportResult, cliResult>>
           ELSE ExportFail("BuildRootError")
    /\ UNCHANGED <<matches, naming, buildRoot, image, uploaded, report,
                   credentials, tokenExchanges, ecrAnswer>>
    /\ UNCHANGED aux

\* Mutant of ExportBuild: line 186 is missing, the built image is announced
\* with the workspace still in place.
ExportBuildWithoutDestroy ==
    /\ pc = "export_build"
    /\ \E r \in Results :
        /\ Call("build", r)
        /\ IF r = "Ok"
           THEN /\ image' = "built"
                /\ pc' = "export_end"
                /\ UNCHANGED <<exportResult, cliResult>>
           ELSE /\ ExportFail("EngineBuildError")
                /\ UNCHANGED image
    /\ UNCHANGED <<matches, naming, buildRoot, uploaded, report, credentials,
                   tokenExchanges, ecrAnswer>>
    /\ UNCHANGED aux

\* let image = build_root.export(ui, naming, memory, engine)?;  (line 185)
ExportBuild ==
    /\ pc = "export_build"
    /\ \E r \in Results :
        /\ Call("build", r)
        /\ IF r = "Ok"
           THEN /\ image' = "built"
                /\ pc' = "export_destroy"
                /\ UNCHANGED <<exportResult, cliResult>>
           ELSE /\ ExportFail("EngineBuildError")
                /\ UNCHANGED image
    /\ UNCHANGED <<matches, naming, buildRoot, uploaded, report, credentials,
                   tokenExchanges, ecrAnswer>>
    /\ UNCHANGED aux

\* Mutant of ExportDestroy: `let _ = build_root.destroy(ui);` - the result of
\* destroy is dropped.
ExportDestroyIgnoresError ==
    /\ pc = "export_destroy"
    /\ \E r \in Results :
        /\ Call("destroy", r)
        /\ buildRoot' \in IF r = "Ok" THEN {"destroyed"} ELSE {"live", "destroyed"}
        /\ pc' = "export_end"
        /\ UNCHANGED <<exportResult, cliResult>>
    /\ UNCHANGED <<matches, naming, image, uploaded, report, credentials,
                   tokenExchanges, ecrAnswer>>
    /\ UNCHANGED aux

\* build_root.destroy(ui)?;  (line 186).  A failing destroy may or may not
\* have removed the workspace.
ExportDestroy ==
    /\ pc = "export_destroy"
    /\ \E r \in Results :
        /\ Call("destroy", r)
        /\ IF r = "Ok"
           THEN /\ buildRoot' = "destroyed"
                /\ pc' = "export_end"
                /\ UNCHANGED <<exportResult, cliResult>>
           ELSE /\ buildRoot' \in {"live", "destroyed"}
                /\ ExportFail("CleanupError")
    /\ UNCHANGED <<matches, naming, image, uploaded, report, credentials,
                   tokenExchanges, ecrAnswer>>
    /\ UNCHANGED aux

\* ui.end(..)?; Ok(image)  (lines 187-191)
ExportEnd ==
    /\ pc = "export_end"
    /\ \E r \in Results :
        /\ Call("end", r)
        /\ IF r = "Ok"
           THEN /\ exportResult' = "Ok"
                /\ pc' = "cli_report"
                /\ UNCHANGED cliResult
           ELSE ExportFail("UIError")
    /\ UNCHANGED <<matches, naming, buildRoot, image, uploaded, report,
                   credentials, tokenExchanges, ecrAnswer>>
    /\ UNCHANGED aux

(***************************************************************************)
(* export_for_cli_matches, lines 218-234                                   *)
(***************************************************************************)
\* Mutant of CliReport: the report is best-effort, its error is dropped.
CliReportIgnoresError ==
    /\ pc = "cli_report"
    /\ \E r \in Results :
        /\ Call("create_report", r)
        /\ report' = (r = "Ok")
        /\ pc' = "cli_push"
        /\ UNCHANGED cliResult
    /\ UNCHANGED <<matches, naming, buildRoot, image, uploaded, credentials,
                   tokenExchanges, ecrAnswer, exportResult>>
    /\ UNCHANGED aux

\* docker_image.create_report(ui, env::current_dir()?.join("results"))?;
\* (line 218)
CliReport ==
    /\ pc = "cli_report"
    /\ \E r \in Results :
        /\ Call("create_report", r)
        /\ IF r = "Ok"
           THEN report' = TRUE /\ pc' = "cli_push" /\ UNCHANGED cliResult
           ELSE CliFail("ReportError") /\ UNCHANGED report
    /\ UNCHANGED <<matches, naming, buildRoot, image, uploaded, credentials,
                   tokenExchanges, ecrAnswer, exportResult>>
    /\ UNCHANGED aux

\* if matches.is_present("PUSH_IMAGE") { Credentials::new(..).await? ..
\* (lines 220-225)
CliCredentials ==
    /\ pc = "cli_push"
    /\ matches.PUSH_IMAGE
    /\ \E ecr \in EcrAnswers :
        LET c == CredentialsNew(naming.registry_type, matches.REGISTRY_USERNAME,
                                matches.REGISTRY_PASSWORD, ecr)
        IN /\ Call("Credentials::new", c.res)
           /\ ecrAnswer' = IF naming.registry_type = "Amazon" THEN ecr ELSE "none"
           /\ tokenExchanges' = IF CallsTokenExchange(naming.registry_type, ecr)
                                THEN tokenExchanges + 1
                                ELSE tokenExchanges
           /\ CASE c.res = "Ok" ->
                     /\ credentials' = [kind |-> "Credentials", token |-> c.val]
                     /\ pc' = "cli_do_push"
                     /\ UNCHANGED cliResult
                [] c.res = "Err" ->
                     /\ CliFail(c.val)
                     /\ UNCHANGED credentials
                [] OTHER ->
                     /\ pc' = "done"
                     /\ cliResult' = [kind |-> "Panic", val |-> c.val]
                     /\ UNCHANGED credentials
    /\ UNCHANGED <<matches, naming, buildRoot, image, uploaded, report, exportResult>>
    /\ UNCHANGED aux

\* Mutant of CliPush: a failed push is only reported, and the function goes
\* on to line 228.
CliPushIgnoresError ==
    /\ pc = "cli_do_push"
    /\ \E r \in Results :
        /\ Call("push", r)
        /\ uploaded' \in IF r = "Ok" THEN {MaxTags} ELSE 0..(MaxTags - 1)
        /\ pc' = "cli_rm"
        /\ UNCHANGED cliResult
    /\ UNCHANGED <<matches, naming, buildRoot, image, report, credentials,
                   tokenExchanges, ecrAnswer, exportResult>>
    /\ UNCHANGED aux

\* Mutant of CliPush: a failed push is tried again.
CliPushRetriesOnError ==
    /\ pc = "cli_do_push"
    /\ \E r \in Results :
        /\ Call("push", r)
        /\ IF r = "Ok"
           THEN uploaded' = MaxTags /\ pc' = "cli_rm"
           ELSE uploaded' \in 0..(MaxTags - 1) /\ pc' = "cli_do_push"
        /\ UNCHANGED cliResult
    /\ UNCHANGED <<matches, naming, buildRoot, image, report, credentials,
                   tokenExchanges, ecrAnswer, exportResult>>
    /\ UNCHANGED aux

\* docker_image.push(ui, &credentials, naming.registry_url)?;  (line 226)
\* A failing push may have uploaded some of the tags already.
CliPush ==
    /\ pc = "cli_do_push"
    /\ \E r \in Results :
        /\ Call("push", r)
        /\ IF r = "Ok"
           THEN /\ uploaded' = MaxTags
                /\ pc' = "cli_rm"
                /\ UNCHANGED cliResult
           ELSE /\ uploaded' \in 0..(MaxTags - 1)
                /\ CliFail("PushError")
    /\ UNCHANGED <<matches, naming, buildRoot, image, report, credentials,
                   tokenExchanges, ecrAnswer, exportResult>>
    /\ UNCHANGED aux

\* Mutant of CliNoPush: the credentials are resolved before the test of
\* PUSH_IMAGE, so also when no push was asked for.
CliNoPushResolvesCredentials ==
    /\ pc = "cli_push"
    /\ ~matches.PUSH_IMAGE
    /\ Call("Credentials::new", "Ok")
    /\ credentials' = [kind |-> "Credentials", token |-> <<>>]
    /\ pc' = "cli_rm"
    /\ UNCHANGED <<matches, naming, buildRoot, image, uploaded, report,
                   tokenExchanges, ecrAnswer, exportResult, cliResult>>
    /\ UNCHANGED aux

\* PUSH_IMAGE absent: the if at line 220 is skipped.
CliNoPush ==
    /\ pc = "cli_push"
    /\ ~matches.PUSH_IMAGE
    /\ pc' = "cli_rm"
    /\ UNCHANGED <<matches, naming, calls, buildRoot, image, uploaded, report,
                   credentials, tokenExchanges, ecrAnswer, exportResult, cliResult>>
    /\ UNCHANGED aux

\* Mutant of CliRm: the test of RM_IMAGE is dropped, rm runs on every run
\* that reaches line 228.
CliRmUnrequested ==
    /\ pc = "cli_rm"
    /\ \E r \in Results :
        /\ Call("rm", r)
        /\ IF r = "Ok"
           THEN /\ image' = "removed"
                /\ pc' = "done"
                /\ cliResult' = [kind |-> "Ok", val |-> "None"]
           ELSE /\ image' \in {"built", "removed"}
                /\ CliFail("RemoveError")
    /\ UNCHANGED <<matches, naming, buildRoot, uploaded, report, credentials,
                   tokenExchanges, ecrAnswer, exportResult>>
    /\ UNCHANGED aux

\* Mutant of CliRm: after a successful rm the image is still returned.
CliRmReturnsImage ==
    /\ pc = "cli_rm"
    /\ matches.RM_IMAGE
    /\ \E r \in Results :
        /\ Call("rm", r)
        /\ IF r = "Ok"
           THEN /\ image' = "removed"
                /\ pc' = "done"
                /\ cliResult' = [kind |-> "Ok", val |-> "Some"]
           ELSE /\ image' \in {"built", "removed"}
                /\ CliFail("RemoveError")
    /\ UNCHANGED <<matches, naming, buildRoot, uploaded, report, credentials,
                   tokenExchanges, ecrAnswer, exportResult>>
    /\ UNCHANGED aux

\* if matches.is_present("RM_IMAGE") { docker_image.rm(ui)?; Ok(None) }
\* (lines 228-231).  A failing rm may or may not have removed the image.
CliRm ==
    /\ pc = "cli_rm"
    /\ matches.RM_IMAGE
    /\ \E r \in Results :
        /\ Call("rm", r)
        /\ IF r = "Ok"
           THEN /\ image' = "removed"
                /\ pc' = "done"
                /\ cliResult' = [kind |-> "Ok", val |-> "None"]
           ELSE /\ image' \in {"built", "removed"}
                /\ CliFail("RemoveError")
    /\ UNCHANGED <<matches, naming, buildRoot, uploaded, report, credentials,
                   tokenExchanges, ecrAnswer, exportResult>>
    /\ UNCHANGED aux

\* Mutant of CliReturnImage: the test of RM_IMAGE is inverted, the image is
\* removed when removal was not asked for.
CliReturnImageRemoves ==
    /\ pc = "cli_rm"
    /\ ~matches.RM_IMAGE
    /\ Call("rm", "Ok")
    /\ image' = "removed"
    /\ pc' = "done"
    /\ cliResult' = [kind |-> "Ok", val |-> "None"]
    /\ UNCHANGED <<matches, naming, buildRoot, uploaded, report, credentials,
                   tokenExchanges, ecrAnswer, exportResult>>
    /\ UNCHANGED aux

\* else { Ok(Some(docker_image)) }  (lines 232-234)
CliReturnImage ==
    /\ pc = "cli_rm"
    /\ ~matches.RM_IMAGE
    /\ pc' = "done"
    /\ cliResult' = [kind |-> "Ok", val |-> "Some"]
    /\ UNCHANGED <<matches, naming, calls, buildRoot, image, uploaded, report,
                   credentials, tokenExchanges, ecrAnswer, exportResult>>
    /\ UNCHANGED aux

Next ==
    \/ CliSetup
    \/ ExportBegin
    \/ ExportCreate
    \/ ExportFromBuildRoot
    \/ ExportBuild
    \/ ExportDestroy
    \/ ExportEnd
    \/ CliReport
    \/ CliCredentials
    \/ CliPush
    \/ CliNoPush
    \/ CliRm
    \/ CliReturnImage

Spec == Init /\ [][Next]_vars

(***************************************************************************)
(* Reading the history                                                     *)
(***************************************************************************)
Count(op) == Cardinality({i \in 1..Len(calls) : calls[i].op = op})

Called(op) == \E i \in 1..Len(calls) : calls[i].op = op

Returned(op, res) == \E i \in 1..Len(calls) : calls[i].op = op /\ calls[i].res = res

\* op was called, and nothing was called after it.
LastCall(op) == Len(calls) > 0 /\ calls[Len(calls)].op = op

\* The operations in the order the two functions name them.
Rank(op) ==
    CASE op = "BuildSpec::new_from_cli_matches" -> 1
      [] op = "begin"            -> 2
      [] op = "create"           -> 3
      [] op = "from_build_root"  -> 4
      [] op = "build"            -> 5
      [] op = "destroy"          -> 6
      [] op = "end"              -> 7
      [] op = "create_report"    -> 8
      [] op = "Credentials::new" -> 9
      [] op = "push"             -> 10
      [] op = "rm"               -> 11

Returned_Export == exportResult # "pending"

Returned_Cli == cliResult.kind # "pending"

TypeOK ==
    /\ matches \in Matches
    /\ buildRoot \in {"none", "live", "destroyed"}
    /\ image \in {"none", "built", "removed"}
    /\ uploaded \in 0..MaxTags
    /\ tokenExchanges \in 0..1
    /\ ecrAnswer \in EcrAnswers \cup {"none"}
    /\ credentials.kind \in {"none", "Credentials"}
    /\ report \in BOOLEAN
    /\ cliResult.kind \in {"pending", "Ok", "Err", "Panic"}
    /\ (pc = "done") = Returned_Cli

(***************************************************************************)
(* Properties of the pipeline                                              *)
(***************************************************************************)
PublishOps == {"Credentials::new", "push", "rm"}

LaterOps == {"end", "create_report", "Credentials::new", "push", "rm"}

\* C1: whatever the outcome of one export, BuildRoot.destroy has been invoked
\* exactly once when export returns.
C1_DestroyExactlyOncePerExport ==
    exportResult \in {"Ok", "ResolutionError", "BuildRootError", "EngineBuildError"}
        => Count("destroy") = 1

\* C2: when the engine build (DockerBuildRoot::export) fails, export returns
\* the engine build error, no later step runs, and BuildRoot.destroy is still
\* invoked before export returns.
C2_BuildFailureStillDestroys ==
    Returned("build", "Err") =>
        /\ exportResult = "EngineBuildError"
        /\ \A op \in LaterOps : ~Called(op)
        /\ Called("destroy")

\* C3 as stated: a failure of BuildRoot.destroy after a successful build never
\* makes the export fail; export still returns the built image.
C3_DestroyFailureNotFatal ==
    (Returned_Export /\ Returned("destroy", "Err")) => exportResult = "Ok"

\* C3 amended: a failure of BuildRoot.destroy after a successful build is
\* fatal: export returns the destroy error in place of the image (which stays
\* in the engine's store), and nothing runs after the failed destroy.
C3_DestroyFailureIsReturned ==
    Returned("destroy", "Err") =>
        /\ Returned("build", "Ok")
        /\ exportResult = "CleanupError"
        /\ cliResult = [kind |-> "Err", val |-> "CleanupError"]
        /\ LastCall("destroy")
        /\ image = "built"

C3_Witness ==
    Returned("destroy", "Err") /\ Returned_Export /\ buildRoot = "live"

\* C4 as stated: a failure to write the report after a successful build
\* leaves the outcome a success; the built image is still returned.
C4_ReportFailureNotFatal ==
    (Returned_Cli /\ Returned("create_report", "Err")) => cliResult.kind = "Ok"

\* C4 amended: a failure to write the report after a successful build leaves
\* the built image in place (export had returned it, nothing removes it) but
\* is fatal to the call: export_for_cli_matches returns the report error, no
\* image, and runs no push and no remove.
C4_ReportFailureIsReturned ==
    Returned("create_report", "Err") =>
        /\ exportResult = "Ok"
        /\ image = "built"
        /\ cliResult = [kind |-> "Err", val |-> "ReportError"]
        /\ LastCall("create_report")
        /\ ~report

C4_Witness ==
    Returned("create_report", "Err") /\ Returned_Cli
        /\ matches.PUSH_IMAGE /\ matches.RM_IMAGE

\* C5: when a component reference cannot be resolved, no BuildRoot is
\* created, destroy is never called, no later stage runs, and the call
\* returns an error.
C5_ResolutionFailureStops ==
    Returned("create", "ResolutionError") =>
        /\ buildRoot = "none"
        /\ ~Called("destroy")
        /\ \A op \in {"from_build_root", "build"} \cup LaterOps : ~Called(op)
        /\ LastCall("create")
        /\ exportResult = "ResolutionError"
        /\ cliResult = [kind |-> "Err", val |-> "ResolutionError"]
        /\ pc = "done"

C5_Witness ==
    /\ Returned("create", "ResolutionError")
    /\ Returned_Export
    /\ matches.PUSH_IMAGE /\ matches.RM_IMAGE

C7_CredentialsOnlyForPush ==
    /\ \A i \in 1..Len(calls) :
        calls[i].op = "Credentials::new" =>
            /\ matches.PUSH_IMAGE
            /\ \E j \in 1..(i-1) : calls[j] = [op |-> "build", res |-> "Ok"]
            /\ \E j \in 1..(i-1) : calls[j] = [op |-> "create_report", res |-> "Ok"]
            /\ exportResult = "Ok"
            /\ report
    /\ ~matches.PUSH_IMAGE =>
            /\ ~Called("Credentials::new")
            /\ credentials = NoCredentials
            /\ tokenExchanges = 0
    /\ credentials # NoCredentials => Returned("Credentials::new", "Ok")

C7_Witness ==
    /\ Returned("Credentials::new", "Ok")
    /\ credentials = [kind |-> "Credentials", token |-> EcrToken]
    /\ cliResult.kind = "Ok"

\* C8: the stages run in the fixed order Resolving, Assembling, Building,
\* Publishing, Removing, Done: the calls are made in the order of the code,
\* each only after every earlier call has returned Ok, a failed call is the
\* last one, and a stage is entered only when the stages before it are done.
C8_StagesInOrder ==
    /\ \A i, j \in 1..Len(calls) :
        i < j => /\ Rank(calls[i].op) < Rank(calls[j].op)
                 /\ calls[i].res = "Ok"
    /\ Called("from_build_root") => Returned("create", "Ok")
    /\ Called("build") => Returned("from_build_root", "Ok")
    /\ Called("Credentials::new") => Returned("build", "Ok")
    /\ Called("push") => Returned("Credentials::new", "Ok")
    /\ Called("rm") =>
          /\ Returned("build", "Ok")
          /\ matches.PUSH_IMAGE => Returned("push", "Ok")
    /\ cliResult.kind = "Ok" =>
          /\ \A i \in 1..Len(calls) : calls[i].res = "Ok"
          /\ Returned("build", "Ok")
          /\ matches.PUSH_IMAGE => Returned("push", "Ok")
          /\ matches.RM_IMAGE => Returned("rm", "Ok")
    /\ (pc = "done" /\ \A i \in 1..Len(calls) : calls[i].res = "Ok") =>
          cliResult.kind = "Ok"

C8_Witness ==
    /\ cliResult.kind = "Ok"
    /\ Returned("push", "Ok")
    /\ Returned("rm", "Ok")

\* C9: when push fails nothing is rolled back: no remove runs after the
\* failing push although removal was requested, the built image and the tags
\* already uploaded stay, and the call returns the push error.
C9_PushFailureNoRollback ==
    Returned("push", "Err") =>
        /\ LastCall("push")
        /\ ~Called("rm")
        /\ image = "built"
        /\ cliResult = [kind |-> "Err", val |-> "PushError"]

C9_Witness ==
    /\ Returned("push", "Err")
    /\ matches.RM_IMAGE
    /\ uploaded > 0
    /\ pc = "done"

\* C10: when credential resolution fails, the built image is left in the
\* engine's store (no remove), the report has been written, and the failure
\* is returned as an error.
C10_CredentialFailureReturnsError ==
    (Called("Credentials::new") /\ ~Returned("Credentials::new", "Ok")) =>
        /\ ~Called("push") /\ ~Called("rm")
        /\ image = "built"
        /\ report
        /\ cliResult.kind = "Err"

\* C11: for the Amazon kind every failure to obtain a token (the exchange
\* call fails, no authorization data, an empty authorization data list, a
\* first entry without token) is an error value returned by
\* Credentials::new: no crash, no credential, and the exchange is not retried.
C11_TokenFailureIsAnError ==
    (naming.registry_type = "Amazon"
       /\ ecrAnswer \in {"RequestErr", "NoAuthData", "EmptyAuthData", "NoToken"}) =>
        /\ Returned("Credentials::new", "Err")
        /\ credentials = NoCredentials
        /\ tokenExchanges = 1

\* The inverse of base64 encoding, on padded base64 text.
RECURSIVE Base64Decode(_)
Base64Decode(text) ==
    IF Len(text) < 4 THEN <<>>
    ELSE LET c1 == text[1]
             c2 == text[2]
             c3 == text[3]
             c4 == text[4]
             b1 == c1 * 4 + c2 \div 16
         IN IF c3 = Pad THEN <<b1>>
            ELSE IF c4 = Pad THEN <<b1, (c2 % 16) * 16 + c3 \div 4>>
            ELSE <<b1, (c2 % 16) * 16 + c3 \div 4, (c3 % 4) * 64 + c4>>
                 \o Base64Decode(SubSeq(text, 5, Len(text)))

\* C12: for the Docker and Azure kinds Credentials::new makes no token
\* exchange, always succeeds, and its token is the base64 encoding of
\* username ":" password (decoding it gives that text back); the credential
\* exists before push is called.
C12_GenericCredentialIsEncoding ==
    (Called("Credentials::new") /\ naming.registry_type \in {"Docker", "Azure"}) =>
        /\ tokenExchanges = 0
        /\ ecrAnswer = "none"
        /\ Returned("Credentials::new", "Ok")
        /\ credentials.kind = "Credentials"
        /\ Len(credentials.token) % 4 = 0
        /\ \A i \in 1..Len(credentials.token) : credentials.token[i] \in 0..Pad
        /\ Base64Decode(credentials.token)
             = matches.REGISTRY_USERNAME \o <<Colon>> \o matches.REGISTRY_PASSWORD
        /\ \A i \in 1..Len(calls) :
              calls[i].op = "push" =>
                  \E j \in 1..(i-1) : calls[j] = [op |-> "Credentials::new", res |-> "Ok"]

C12_Witness ==
    /\ Returned("push", "Ok")
    /\ naming.registry_type = "Azure"
    /\ matches.REGISTRY_USERNAME = <<117, 115>>
    /\ credentials.token = <<29, 23, 12, 58, 28, 7, 28, Pad>>   \* "dXM6cHc="

\* C13 as stated: with the Amazon kind and a push, the credential resolution
\* makes exactly one token-exchange call; without push, or with a generic
\* kind, none is made.
C13_ExactlyOneExchange ==
    /\ (Called("Credentials::new") /\ naming.registry_type = "Amazon") =>
          tokenExchanges = 1
    /\ (~matches.PUSH_IMAGE \/ naming.registry_type # "Amazon") =>
          tokenExchanges = 0

\* C13 amended: with the Amazon kind and a push, the credential resolution
\* makes exactly one token-exchange call, unless HttpClient::new() fails, and
\* then none; without push, with a generic kind, or before the credential
\* resolution, none is made.
C13_OneExchangeUnlessNoClient ==
    /\ (Called("Credentials::new") /\ naming.registry_type = "Amazon") =>
          tokenExchanges = IF ecrAnswer = "HttpClientErr" THEN 0 ELSE 1
    /\ (~matches.PUSH_IMAGE \/ naming.registry_type # "Amazon") =>
          tokenExchanges = 0
    /\ ~Called("Credentials::new") => tokenExchanges = 0

C13_Witness ==
    /\ Called("Credentials::new")
    /\ naming.registry_type = "Amazon"
    /\ ecrAnswer = "HttpClientErr"
    /\ tokenExchanges = 0

\* C14: nothing is retried: every operation of the pipeline is invoked at
\* most once in a run, also after it or a later one has failed.
C14_NoRetry ==
    /\ \A i, j \in 1..Len(calls) : calls[i].op = calls[j].op => i = j
    /\ tokenExchanges <= 1

C14_Witness ==
    /\ pc = "done"
    /\ Returned("push", "Err")
    /\ Count("push") = 1

\* C15 as stated: with neither push nor remove requested, a successful build
\* goes directly to Done: no credential resolution, push or remove, and the
\* call returns the built image.
C15_BuildGoesToDone ==
    (~matches.PUSH_IMAGE /\ ~matches.RM_IMAGE /\ exportResult = "Ok" /\ pc = "done") =>
        /\ \A op \in PublishOps : ~Called(op)
        /\ cliResult = [kind |-> "Ok", val |-> "Some"]

\* C15 amended: with neither push nor remove requested, a successful build
\* is followed by the report step only: no credential resolution, push or
\* remove; the call returns the built image when the report was written and
\* the report error when it was not.
C15_BuildAndReportGoToDone ==
    (~matches.PUSH_IMAGE /\ ~matches.RM_IMAGE /\ exportResult = "Ok" /\ pc = "done") =>
        /\ \A op \in PublishOps : ~Called(op)
        /\ credentials = NoCredentials
        /\ LastCall("create_report")
        /\ image = "built"
        /\ cliResult = IF report THEN [kind |-> "Ok", val |-> "Some"]
                                 ELSE [kind |-> "Err", val |-> "ReportError"]

C15_Witness ==
    /\ ~matches.PUSH_IMAGE /\ ~matches.RM_IMAGE
    /\ cliResult = [kind |-> "Ok", val |-> "Some"]
    /\ image = "built"

\* Position of the first call of op in the history (0: not called).
IndexOf(op) ==
    IF Called(op) THEN CHOOSE i \in 1..Len(calls) : calls[i].op = op ELSE 0

\* C19 as stated: begin is emitted before the build-spec is resolved or a
\* BuildRoot created; end is emitted only after the image was built and
\* destroy executed; no end is emitted on a run in which a stage failed.
C19_EndOnlyOnRunsWithoutFailure ==
    /\ \A op \in {"create", "from_build_root"} :
          Called(op) => 0 < IndexOf("begin") /\ IndexOf("begin") < IndexOf(op)
    /\ Called("end") =>
          /\ Returned("build", "Ok")
          /\ 0 < IndexOf("destroy") /\ IndexOf("destroy") < IndexOf("end")
    /\ Called("end") =>
          \A i \in 1..Len(calls) : i # IndexOf("end") => calls[i].res = "Ok"

\* C19 amended: begin is emitted (and has returned Ok) before the build-spec
\* is resolved or a BuildRoot created; end is emitted only after the image
\* was built and destroy has returned Ok, so never on a run in which
\* resolution, assembly, build or destroy failed.  The report, publish and
\* remove steps run after end: their failure follows an emitted end.
C19_EndAfterBuildAndDestroy ==
    /\ \A op \in {"create", "from_build_root"} :
          Called(op) => /\ Returned("begin", "Ok")
                        /\ IndexOf("begin") < IndexOf(op)
    /\ Called("end") =>
          /\ Returned("build", "Ok")
          /\ Returned("destroy", "Ok")
          /\ IndexOf("destroy") = IndexOf("end") - 1
          /\ \A i \in 1..(IndexOf("end") - 1) : calls[i].res = "Ok"
    /\ (\E op \in {"begin", "create", "from_build_root", "build", "destroy"} :
           Called(op) /\ ~Returned(op, "Ok")) => ~Called("end")
    /\ \A op \in {"create_report", "Credentials::new", "push", "rm"} :
          Called(op) => Returned("end", "Ok") /\ IndexOf("end") < IndexOf(op)

C19_Witness ==
    /\ Returned("end", "Ok")
    /\ Returned("push", "Err")

(***************************************************************************)
(* Cancellation: the caller drops the future of export_for_cli_matches.    *)
(* A future can only be dropped while it is suspended in an .await.        *)
(***************************************************************************)
\* Mutant of AwaitPoints: build_root.export is awaited too, so the export
\* can be dropped while it holds the workspace.
AwaitPointsWithAsyncBuild == {"export_create", "export_build", "cli_push"}

\* The .await expressions: build_spec.create(ui).await (line 184, reached
\* through export(..).await at line 217) and Credentials::new(..).await
\* (line 225).
AwaitPoints == {"export_create", "cli_push"}

\* The future is dropped at an .await: nothing of the function runs any more.
Cancel ==
    /\ pc \in AwaitPoints
    /\ pc = "cli_push" => matches.PUSH_IMAGE
    /\ pc' = "done"
    /\ cliResult' = [kind |-> "Cancelled", val |-> "none"]
    /\ exportResult' = IF exportResult = "pending" THEN "Cancelled" ELSE exportResult
    /\ UNCHANGED <<matches, naming, calls, buildRoot, image, uploaded, report,
                   credentials, tokenExchanges, ecrAnswer>>
    /\ UNCHANGED aux

NextCancel ==
    \/ Next
    \/ Cancel

SpecCancel == Init /\ [][NextCancel]_vars

\* C17: when the caller cancels an export in flight, destroy has been
\* attempted for any BuildRoot created before: a cancelled run never leaves
\* a BuildRoot that export created and did not destroy.
C17_CancelledExportLeavesNoBuildRoot ==
    cliResult.kind = "Cancelled" =>
        /\ buildRoot # "none" => Called("destroy")
        /\ buildRoot # "live"
        /\ Count("destroy") <= 1

C17_Witness ==
    /\ cliResult.kind = "Cancelled"
    /\ Returned("build", "Ok")
    /\ Returned("destroy", "Ok")
    /\ buildRoot = "destroyed"

(***************************************************************************)
(* Several calls of export (lines 176-192) running side by side, as a      *)
(* batch tool would start them.  Each call keeps its BuildRoot in its own  *)
(* local build_root; the workspaces themselves are numbered in the order   *)
(* of their creation.                                                      *)
(***************************************************************************)
\* Number of concurrent exports.
NumExports == 2

Exports == 1..NumExports

\* BuildSpec::create makes a new temporary directory for each call.
FreshWorkspace == Len(workspaces) + 1

\* Mutant of BuildRootOf: the workspace is looked up in one shared place
\* (the latest one created) instead of the call's own build_root.
LatestBuildRoot(e) == Len(workspaces)

\* The build_root local of call e (line 184).
BuildRootOf(e) == exports[e].build_root

\* Call e works on its build_root: the workspace records who used it.
UseWorkspace(e, stillThere) ==
    workspaces' = [workspaces EXCEPT ![BuildRootOf(e)] =
                      [@ EXCEPT !.users = @ \cup {e},
                                !.exists = @ /\ stillThere]]

ConcFail(e, err) ==
    exports' = [exports EXCEPT ![e].pc = "done", ![e].result = err]

ConcGoto(e, label) ==
    exports' = [exports EXCEPT ![e].pc = label]

InitConc ==
    /\ pc = "idle"
    /\ matches = "none"
    /\ naming = "none"
    /\ calls = <<>>
    /\ buildRoot = "none"
    /\ image = "none"
    /\ uploaded = 0
    /\ report = FALSE
    /\ credentials = NoCredentials
    /\ tokenExchanges = 0
    /\ ecrAnswer = "none"
    /\ exportResult = "pending"
    /\ cliResult = Pending
    /\ exports = [e \in Exports |-> [pc |-> "export_begin", build_root |-> 0,
                                     result |-> "pending"]]
    /\ workspaces = <<>>
    /\ input = "none"
    /\ output = NotApplied
    /\ setRole = NoSetRole

\* ui.begin(..)?  (line 182)
ConcBegin(e) ==
    /\ exports[e].pc = "export_begin"
    /\ \E r \in Results :
        IF r = "Ok" THEN ConcGoto(e, "export_create") ELSE ConcFail(e, "UIError")
    /\ UNCHANGED <<pipeline, workspaces, input, output, setRole>>

\* build_spec.create(ui).await?  (line 184)
ConcCreate(e) ==
    /\ exports[e].pc = "export_create"
    /\ \E r \in {"Ok", "ResolutionError", "BuildRootError"} :
        IF r = "Ok"
        THEN /\ workspaces' = Append(workspaces,
                                     [creator |-> e, exists |-> TRUE, users |-> {}])
             /\ exports' = [exports EXCEPT ![e].pc = "export_from_build_root",
                                           ![e].build_root = FreshWorkspace]
        ELSE /\ ConcFail(e, r)
             /\ UNCHANGED workspaces
    /\ UNCHANGED <<pipeline, input, output, setRole>>

\* DockerBuildRoot::from_build_root(.., ui)?  (line 184)
ConcFromBuildRoot(e) ==
    /\ exports[e].pc = "export_from_build_root"
    /\ UseWorkspace(e, TRUE)
    /\ \E r \in Results :
        IF r = "Ok" THEN ConcGoto(e, "export_build") ELSE ConcFail(e, "BuildRootError")
    /\ UNCHANGED <<pipeline, input, output, setRole>>

\* build_root.export(ui, naming, memory, engine)?  (line 185)
ConcBuild(e) ==
    /\ exports[e].pc = "export_build"
    /\ UseWorkspace(e, TRUE)
    /\ \E r \in Results :
        IF r = "Ok" THEN ConcGoto(e, "export_destroy") ELSE ConcFail(e, "EngineBuildError")
    /\ UNCHANGED <<pipeline, input, output, setRole>>

\* build_root.destroy(ui)?  (line 186)
ConcDestroy(e) ==
    /\ exports[e].pc = "export_destroy"
    /\ \E r \in Results :
        IF r = "Ok"
        THEN UseWorkspace(e, FALSE) /\ ConcGoto(e, "export_end")
        ELSE (\E left \in BOOLEAN : UseWorkspace(e, left)) /\ ConcFail(e, "CleanupError")
    /\ UNCHANGED <<pipeline, input, output, setRole>>

\* ui.end(..)?; Ok(image)  (lines 187-191)
ConcEnd(e) ==
    /\ exports[e].pc = "export_end"
    /\ \E r \in Results :
        IF r = "Ok"
        THEN exports' = [exports EXCEPT ![e].pc = "done", ![e].result = "Ok"]
        ELSE ConcFail(e, "UIError")
    /\ UNCHANGED <<pipeline, workspaces, input, output, setRole>>

NextConc ==
    \E e \in Exports :
        \/ ConcBegin(e)
        \/ ConcCreate(e)
        \/ ConcFromBuildRoot(e)
        \/ ConcBuild(e)
        \/ ConcDestroy(e)
        \/ ConcEnd(e)

SpecConc == InitConc /\ [][NextConc]_vars

\* The call holds a BuildRoot it has not yet passed to destroy.
HoldsBuildRoot(e) ==
    exports[e].pc \in {"export_from_build_root", "export_build", "export_destroy"}

\* C16: with several exports running concurrently, in every interleaving a
\* BuildRoot is only ever used (built from, destroyed) by the export that
\* created it, no two exports have the same BuildRoot, and an export's
\* BuildRoot is still there as long as that export has not destroyed it.
C16_BuildRootsNotShared ==
    /\ \A w \in 1..Len(workspaces) :
          workspaces[w].users \subseteq {workspaces[w].creator}
    /\ \A e \in Exports :
          exports[e].build_root # 0 =>
              /\ exports[e].build_root \in 1..Len(workspaces)
              /\ workspaces[exports[e].build_root].creator = e
    /\ \A e, f \in Exports :
          (e # f /\ exports[e].build_root # 0) =>
              exports[e].build_root # exports[f].build_root
    /\ \A e \in Exports :
          HoldsBuildRoot(e) => workspaces[exports[e].build_root].exists

C16_Witness ==
    /\ \A e \in Exports : exports[e].build_root # 0
    /\ HoldsBuildRoot(1)
    /\ exports[2].result = "Ok"
    /\ ~workspaces[exports[2].build_root].exists
    /\ workspaces[exports[1].build_root].users = {1}

(***************************************************************************)
(* The tag list of an image, as a function of the Naming                   *)
(*                                                                         *)
(* Naming::new_from_cli_matches (lib.rs:75-87) turns the arguments into    *)
(* the four tag policies.  The list of tags is computed from the Naming    *)
(* and the package identifier in docker.rs, which is outside the modelled  *)
(* source; ImageTags follows its documented behaviour.                     *)
(***************************************************************************)
Release == "20200101000000"

\* Versions of the package being exported; "latest" is a version whose tag
\* coincides with the latest tag.
Versions == {"1.2.0", "latest"}

\* Values of TAG_CUSTOM: none, and tags equal to the latest tag, a version
\* tag, a version+release tag, and none of them.
CustomTags == {NoTag, <<"latest">>, <<"1.2.0">>, <<"1.2.0", Release>>, <<"stable">>}

NamingMatches == [NO_TAG_LATEST : BOOLEAN, NO_TAG_VERSION : BOOLEAN,
                  NO_TAG_VERSION_RELEASE : BOOLEAN, TAG_CUSTOM : CustomTags,
                  REGISTRY_TYPE : RegistryTypeArgs]

\* The tags the policies of a Naming ask for, in precedence order, each
\* with its rank.
TagCandidates(n, version, release) ==
    (IF n.custom_tag # NoTag THEN <<n.custom_tag>> ELSE <<>>)
    \o (IF n.version_release_tag THEN << <<version, release>> >> ELSE <<>>)
    \o (IF n.version_tag THEN << <<version>> >> ELSE <<>>)
    \o (IF n.latest_tag THEN << <<"latest">> >> ELSE <<>>)

RECURSIVE Dedup(_)
\* Order-preserving removal of duplicates: the first occurrence stays.
Dedup(seq) ==
    IF seq = <<>> THEN <<>>
    ELSE LET init == Dedup(SubSeq(seq, 1, Len(seq) - 1))
             last == seq[Len(seq)]
         IN IF \E i \in 1..Len(init) : init[i] = last
            THEN init ELSE Append(init, last)

ImageTagsWithDuplicates(n, version, release) ==
    TagCandidates(n, version, release)

\* The tag list: custom tag, version+release, version, latest, de-duplicated.
ImageTags(n, version, release) ==
    Dedup(TagCandidates(n, version, release))

InitNaming ==
    /\ pc = "idle"
    /\ matches = "none"
    /\ naming = "none"
    /\ calls = <<>>
    /\ buildRoot = "none"
    /\ image = "none"
    /\ uploaded = 0
    /\ report = FALSE
    /\ credentials = NoCredentials
    /\ tokenExchanges = 0
    /\ ecrAnswer = "none"
    /\ exportResult = "pending"
    /\ cliResult = Pending
    /\ exports = <<>>
    /\ workspaces = <<>>
    /\ input \in [m : NamingMatches, version : Versions]
    /\ output = NotApplied
    /\ setRole = NoSetRole

\* let naming = Naming::new_from_cli_matches(&matches);  (line 213), and
\* the tag list the image gets under that Naming.
ApplyNaming ==
    /\ ~output.done
    /\ LET n == NamingNewFromCliMatches(input.m)
       IN output' = [done |-> TRUE, naming |-> n,
                     tags |-> ImageTags(n, input.version, Release)]
    /\ UNCHANGED <<pipeline, exports, workspaces, input, setRole>>

NextNaming == ApplyNaming

SpecNaming == InitNaming /\ [][NextNaming]_vars

\* The precedence rank of a tag under a Naming: the first policy that asks
\* for it (1 custom, 2 version+release, 3 version, 4 latest; 5: none does).
TagRank(n, version, tag) ==
    IF n.custom_tag # NoTag /\ tag = n.custom_tag THEN 1
    ELSE IF n.version_release_tag /\ tag = <<version, Release>> THEN 2
    ELSE IF n.version_tag /\ tag = <<version>> THEN 3
    ELSE IF n.latest_tag /\ tag = <<"latest">> THEN 4
    ELSE 5

\* C18: for every naming policy the tag list has no duplicates and keeps the
\* precedence order: every tag in it is asked for by a policy, every tag a
\* policy asks for is in it, the custom tag is first if present, and the
\* tags come in the order custom, version+release, version, latest.
C18_TagsUniqueInPrecedenceOrder ==
    output.done =>
        LET n == output.naming
            v == input.version
            tags == output.tags
        IN /\ \A i, j \in 1..Len(tags) : i # j => tags[i] # tags[j]
           /\ \A i \in 1..Len(tags) : TagRank(n, v, tags[i]) \in 1..4
           /\ \A i, j \in 1..Len(tags) :
                 i < j => TagRank(n, v, tags[i]) < TagRank(n, v, tags[j])
           /\ n.custom_tag # NoTag => (tags # <<>> /\ tags[1] = n.custom_tag)
           /\ n.version_release_tag => \E i \in 1..Len(tags) : tags[i] = <<v, Release>>
           /\ n.version_tag => \E i \in 1..Len(tags) : tags[i] = <<v>>
           /\ n.latest_tag => \E i \in 1..Len(tags) : tags[i] = <<"latest">>

\* All four policies on, the custom tag spelled like the latest tag.
C18_Witness ==
    /\ output.done
    /\ output.naming.latest_tag /\ output.naming.version_tag
    /\ output.naming.version_release_tag
    /\ output.naming.custom_tag = <<"latest">>
    /\ output.tags = << <<"latest">>, <<"1.2.0", Release>>, <<"1.2.0">> >>

(***************************************************************************)
(* hab sup run: the event stream options (cli/hab/sup.rs, SupRun)          *)
(*                                                                         *)
(* The parser is the clap App derived from SupRun.  Of its rules the model *)
(* keeps those on the event stream options: --event-stream-url requires    *)
(* three other options (requires_all, sup.rs:234-236), and an option's     *)
(* value can be rejected (the tests *_cannot_be_empty of cli.rs).  Each    *)
(* option is given with a value or not at all; the environment variable    *)
(* of the token and the config files are taken as unset, as in the tests.  *)
(* In which order clap reports a missing requirement and a rejected value  *)
(* is not decided by this source: both outcomes are possible.              *)
(***************************************************************************)
\* AutomateAuthToken::ARG_NAME (cli.rs:401: the name clap reports for
\* --event-stream-token)
AutomateAuthTokenArgName == "EVENT_STREAM_TOKEN"

SupRunArgs == {"EVENT_STREAM_APPLICATION", "EVENT_STREAM_ENVIRONMENT",
               "EVENT_STREAM_URL", "EVENT_STREAM_SITE", AutomateAuthTokenArgName}

\* An option on the command line: not given, given with a value that is
\* accepted ("MY_APP", "127.0.0.1:4222"), given with one that is rejected ("").
ArgValues == {"absent", "valid", "invalid"}

EventStreamUrlRequiresNoToken ==
    {"EVENT_STREAM_APPLICATION", "EVENT_STREAM_ENVIRONMENT"}

\* requires_all of EVENT_STREAM_URL
EventStreamUrlRequires ==
    {"EVENT_STREAM_APPLICATION", "EVENT_STREAM_ENVIRONMENT", AutomateAuthTokenArgName}

RequiresAll(arg) ==
    IF arg = "EVENT_STREAM_URL" THEN EventStreamUrlRequires ELSE {}

IsPresent(a, arg) == a[arg] # "absent"

\* The options given whose requirements are not all given.
MissingRequired(a) ==
    {arg \in SupRunArgs :
        IsPresent(a, arg) /\ \E r \in RequiresAll(arg) : ~IsPresent(a, r)}

\* The options given with a value that their validator rejects.
RejectedValues(a) == {arg \in SupRunArgs : a[arg] = "invalid"}

\* get_matches_from_safe(["run", ...]): the outcomes parsing can have.
SupRunParse(a) ==
    IF MissingRequired(a) = {} /\ RejectedValues(a) = {}
    THEN {"Ok"}
    ELSE {k \in {"MissingRequiredArgument", "ValueValidation"} :
             \/ k = "MissingRequiredArgument" /\ MissingRequired(a) # {}
             \/ k = "ValueValidation" /\ RejectedValues(a) # {}}

InitSupRun ==
    /\ pc = "idle"
    /\ matches = "none"
    /\ naming = "none"
    /\ calls = <<>>
    /\ buildRoot = "none"
    /\ image = "none"
    /\ uploaded = 0
    /\ report = FALSE
    /\ credentials = NoCredentials
    /\ tokenExchanges = 0
    /\ ecrAnswer = "none"
    /\ exportResult = "pending"
    /\ cliResult = Pending
    /\ exports = <<>>
    /\ workspaces = <<>>
    /\ input \in [SupRunArgs -> ArgValues]
    /\ output = NotApplied
    /\ setRole = NoSetRole

\* sup_commands().get_matches_from_safe(..)
ApplySupRunParse ==
    /\ ~output.done
    /\ \E r \in SupRunParse(input) : output' = [done |-> TRUE, result |-> r]
    /\ UNCHANGED <<pipeline, exports, workspaces, input, setRole>>

NextSupRun == ApplySupRunParse

SpecSupRun == InitSupRun /\ [][NextSupRun]_vars

EventStreamCompanions ==
    {"EVENT_STREAM_APPLICATION", "EVENT_STREAM_ENVIRONMENT", "EVENT_STREAM_TOKEN"}

\* C20: run accepts --event-stream-url only when --event-stream-application,
\* --event-stream-environment and --event-stream-token are supplied too:
\* parsing never succeeds with the URL and one of the three missing; when
\* the values given are acceptable, the URL with any of the three missing
\* fails with MissingRequiredArgument, and all four together parse.
C20_UrlRequiresAppEnvToken ==
    (output.done /\ IsPresent(input, "EVENT_STREAM_URL")) =>
        LET allGiven == \A c \in EventStreamCompanions : IsPresent(input, c)
        IN /\ output.result = "Ok" => allGiven
           /\ RejectedValues(input) = {} =>
                 /\ ~allGiven => output.result = "MissingRequiredArgument"
                 /\ allGiven => output.result = "Ok"

\* The third case of the test app_and_env_and_token_options_required_if_url_option:
\* everything but the token.
C20_Witness ==
    /\ output.done
    /\ input["EVENT_STREAM_URL"] = "valid"
    /\ input["EVENT_STREAM_APPLICATION"] = "valid"
    /\ input["EVENT_STREAM_ENVIRONMENT"] = "valid"
    /\ input["EVENT_STREAM_TOKEN"] = "absent"
    /\ output.result = "MissingRequiredArgument"

(***************************************************************************)
(* The remove step and the value returned (lib.rs:228-234)                 *)
(***************************************************************************)
\* Every step the run had to take before line 228 was taken and succeeded.
StepsBeforeRmSucceeded ==
    /\ \A i \in 1..Len(calls) : calls[i].op # "rm" => calls[i].res = "Ok"
    /\ Returned("create_report", "Ok")
    /\ matches.PUSH_IMAGE => (Returned("Credentials::new", "Ok") /\ Returned("push", "Ok"))

\* C21: rm is attempted if and only if removal was requested and every
\* earlier step of the run succeeded, with or without a push; when a push
\* was requested too, rm only comes after the push has returned Ok.  rm is
\* attempted at most once.
C21_RmIffRequestedAndAllSucceeded ==
    /\ Called("rm") =>
          /\ matches.RM_IMAGE
          /\ StepsBeforeRmSucceeded
          /\ Count("rm") = 1
          /\ \A i \in 1..Len(calls) : calls[i].op # "rm" => i < IndexOf("rm")
    /\ (Returned_Cli /\ matches.RM_IMAGE /\ StepsBeforeRmSucceeded) => Called("rm")

\* Push and removal both requested: rm follows the successful push.
C21_Witness ==
    /\ matches.PUSH_IMAGE /\ matches.RM_IMAGE
    /\ Returned("push", "Ok")
    /\ Called("rm")
    /\ IndexOf("push") < IndexOf("rm")

\* C22: on a successful run export_for_cli_matches returns None exactly
\* when removal was requested and rm succeeded, and Some(image) exactly when
\* removal was not requested; an image it returns has not been removed.
C22_ReturnsImageUnlessRemoved ==
    cliResult.kind = "Ok" =>
        /\ cliResult.val \in {"None", "Some"}
        /\ cliResult.val = "None" <=> (matches.RM_IMAGE /\ Returned("rm", "Ok"))
        /\ cliResult.val = "Some" <=> ~matches.RM_IMAGE
        /\ cliResult.val = "Some" => (image = "built" /\ ~Called("rm"))

C22_Witness ==
    /\ cliResult = [kind |-> "Ok", val |-> "None"]
    /\ matches.RM_IMAGE
    /\ Returned("rm", "Ok")
    /\ image = "removed"

(***************************************************************************)
(* RegistryType as text (lib.rs:90-123) and the Naming built from the      *)
(* arguments (lib.rs:75-87)                                                *)
(***************************************************************************)
\* RegistryType::variants()
RegistryTypeVariants == {"amazon", "azure", "docker"}

\* Strings given to from_str: the three spellings, the same in other cases
\* or with blanks around, prefixes and extensions of them, other words, and
\* the empty string.
RegistryStrings ==
    {"amazon", "azure", "docker", "Amazon", "Azure", "Docker", "AMAZON",
     "", " ", "amazon ", " docker", "amazo", "azur", "dockerhub",
     "amazon,azure", "google", "ecr", "aws", "quay", "0"}

RegistryTypeDebug(r) == r

\* impl fmt::Display for RegistryType
RegistryTypeDisplay(r) ==
    CASE r = "Amazon" -> "amazon"
      [] r = "Azure"  -> "azure"
      [] r = "Docker" -> "docker"

InitRegistryType ==
    /\ pc = "idle"
    /\ matches = "none"
    /\ naming = "none"
    /\ calls = <<>>
    /\ buildRoot = "none"
    /\ image = "none"
    /\ uploaded = 0
    /\ report = FALSE
    /\ credentials = NoCredentials
    /\ tokenExchanges = 0
    /\ ecrAnswer = "none"
    /\ exportResult = "pending"
    /\ cliResult = Pending
    /\ exports = <<>>
    /\ workspaces = <<>>
    /\ input \in [value : RegistryStrings, r : RegistryTypes]
    /\ output = NotApplied
    /\ setRole = NoSetRole

\* value.parse::<RegistryType>()
ApplyFromStr ==
    /\ ~output.done
    /\ output' = [done |-> TRUE, op |-> "from_str",
                  parsed |-> RegistryTypeFromStr(input.value)]
    /\ UNCHANGED <<pipeline, exports, workspaces, input, setRole>>

\* r.to_string(), and the text parsed again
ApplyDisplay ==
    /\ ~output.done
    /\ LET text == RegistryTypeDisplay(input.r)
       IN output' = [done |-> TRUE, op |-> "display", text |-> text,
                     parsed |-> RegistryTypeFromStr(text)]
    /\ UNCHANGED <<pipeline, exports, workspaces, input, setRole>>

NextRegistryType ==
    \/ ApplyFromStr
    \/ ApplyDisplay

SpecRegistryType == InitRegistryType /\ [][NextRegistryType]_vars

\* C23: the text conversion of RegistryType is a round trip (the displayed
\* text of r parses to r), and the strings that parse are exactly those of
\* RegistryType::variants().
C23_DisplayFromStrRoundTrip ==
    /\ (output.done /\ output.op = "display") =>
          /\ output.parsed = [ok |-> TRUE, val |-> input.r]
          /\ output.text \in RegistryTypeVariants
    /\ (output.done /\ output.op = "from_str") =>
          (output.parsed.ok <=> input.value \in RegistryTypeVariants)

C23_Witness ==
    /\ output.done /\ output.op = "display"
    /\ input.r = "Azure"
    /\ output.text = "azure"
    /\ output.parsed = [ok |-> TRUE, val |-> "Azure"]

\* C24: parsing a string other than "amazon", "azure", "docker" gives the
\* error InvalidRegistryType carrying that very string, never a RegistryType
\* (ok is FALSE: the result is the Err, val is the string it carries).
C24_OtherStringsAreInvalid ==
    (output.done /\ output.op = "from_str"
        /\ input.value \notin {"amazon", "azure", "docker"}) =>
        /\ output.parsed = [ok |-> FALSE, val |-> input.value]

\* The capitalised spelling is not a registry type.
C24_Witness ==
    /\ output.done /\ output.op = "from_str"
    /\ input.value = "Amazon"
    /\ output.parsed = [ok |-> FALSE, val |-> "Amazon"]

\* C25: Naming::new_from_cli_matches always yields a Naming: its registry
\* type is the parsed REGISTRY_TYPE when that is present and valid, Docker
\* when it is absent or not a registry type; each of latest_tag, version_tag,
\* version_release_tag is true exactly when its NO_TAG_ flag is absent.
C25_NamingFromMatches ==
    output.done =>
        LET m == input.m
            n == output.naming
        IN /\ n.registry_type \in RegistryTypes
           /\ m.REGISTRY_TYPE = "amazon" => n.registry_type = "Amazon"
           /\ m.REGISTRY_TYPE = "azure" => n.registry_type = "Azure"
           /\ m.REGISTRY_TYPE = "docker" => n.registry_type = "Docker"
           /\ m.REGISTRY_TYPE \notin {"amazon", "azure", "docker"} =>
                 n.registry_type = "Docker"
           /\ n.latest_tag <=> ~m.NO_TAG_LATEST
           /\ n.version_tag <=> ~m.NO_TAG_VERSION
           /\ n.version_release_tag <=> ~m.NO_TAG_VERSION_RELEASE

\* REGISTRY_TYPE present but no registry type, only the latest tag switched
\* off.
C25_Witness ==
    /\ output.done
    /\ input.m.REGISTRY_TYPE = "google"
    /\ output.naming.registry_type = "Docker"
    /\ input.m.NO_TAG_LATEST /\ ~input.m.NO_TAG_VERSION
    /\ ~output.naming.latest_tag /\ output.naming.version_tag

(***************************************************************************)
(* hab origin rbac set: start (command/origin/rbac/set_role.rs:13-56)      *)
(*                                                                         *)
(* One behaviour is one call of start.  setRole.calls is the history of    *)
(* the operations start invokes on the API client and the UI, each with    *)
(* its result; the request sent by update_member_role carries the role.    *)
(***************************************************************************)
\* Values of the role argument.
Roles == {"readonly_member", "member", "maintainer", "administrator", "owner"}

\* What update_member_role can answer: Ok, APIError(FORBIDDEN),
\* APIError(NOT_FOUND), any other error.
ApiAnswers == {"Ok", "FORBIDDEN", "NOT_FOUND", "Other"}

\* What prompt_yes_no can answer: Ok(true), Ok(false), Err.
PromptAnswers == {"Yes", "No", "Err"}

SetRoleCall(op, res) == Append(setRole.calls, [op |-> op, res |-> res])

\* start returns result after invoking op with result res.
SetRoleReturn(op, res, result) ==
    setRole' = [setRole EXCEPT !.pc = "done", !.calls = SetRoleCall(op, res),
                               !.result = result]

\* start goes on at label after invoking op with result res.
SetRoleGoto(op, res, label) ==
    setRole' = [setRole EXCEPT !.pc = label, !.calls = SetRoleCall(op, res)]

InitSetRole ==
    /\ pc = "idle"
    /\ matches = "none"
    /\ naming = "none"
    /\ calls = <<>>
    /\ buildRoot = "none"
    /\ image = "none"
    /\ uploaded = 0
    /\ report = FALSE
    /\ credentials = NoCredentials
    /\ tokenExchanges = 0
    /\ ecrAnswer = "none"
    /\ exportResult = "pending"
    /\ cliResult = Pending
    /\ exports = <<>>
    /\ workspaces = <<>>
    /\ input = "none"
    /\ output = NotApplied
    /\ \E np \in BOOLEAN, role \in Roles :
          setRole = [pc |-> "client_new", no_prompt |-> np, role |-> role,
                     calls |-> <<>>, result |-> "pending"]

\* Client::new(bldr_url, PRODUCT, VERSION, None).map_err(Error::APIClient)?
\* (line 21)
SetRoleClientNew ==
    /\ setRole.pc = "client_new"
    /\ \E r \in Results :
        IF r = "Ok" THEN SetRoleGoto("Client::new", r, "begin")
        ELSE SetRoleReturn("Client::new", r, "APIClientError")
    /\ UNCHANGED <<pipeline, exports, workspaces, input, output>>

\* ui.begin(..)?; if !no_prompt {  (lines 23-26)
SetRoleBegin ==
    /\ setRole.pc = "begin"
    /\ \E r \in Results :
        IF r = "Ok"
        THEN SetRoleGoto("begin", r, IF setRole.no_prompt THEN "update" ELSE "confirm")
        ELSE SetRoleReturn("begin", r, "UIError")
    /\ UNCHANGED <<pipeline, exports, workspaces, input, output>>

\* Mutant of SetRoleConfirm: the answer of the prompt is not looked at.
SetRoleConfirmIgnoresAnswer ==
    /\ setRole.pc = "confirm"
    /\ \E a \in PromptAnswers :
        IF a = "Err" THEN SetRoleReturn("prompt_yes_no", a, "UIError")
        ELSE SetRoleGoto("prompt_yes_no", a, "update")
    /\ UNCHANGED <<pipeline, exports, workspaces, input, output>>

\* if !confirm_update_role(ui)? { return Ok(()); }  (lines 27-29, 58-60)
SetRoleConfirm ==
    /\ setRole.pc = "confirm"
    /\ \E a \in PromptAnswers :
        CASE a = "Yes" -> SetRoleGoto("prompt_yes_no", a, "update")
          [] a = "No"  -> SetRoleReturn("prompt_yes_no", a, "Ok")
          [] a = "Err" -> SetRoleReturn("prompt_yes_no", a, "UIError")
    /\ UNCHANGED <<pipeline, exports, workspaces, input, output>>

\* match api_client.update_member_role(origin, token, member_account, role)
\*           .await  (lines 32-33)
SetRoleUpdate ==
    /\ setRole.pc = "update"
    /\ \E a \in ApiAnswers :
        setRole' = [setRole EXCEPT
                      !.pc = CASE a = "Ok" -> "status"
                               [] a \in {"FORBIDDEN", "NOT_FOUND"} -> "fatal"
                               [] OTHER -> "fatal_other",
                      !.calls = Append(setRole.calls,
                                       [op |-> "update_member_role", res |-> a,
                                        role |-> setRole.role])]
    /\ UNCHANGED <<pipeline, exports, workspaces, input, output>>

\* Mutant of SetRoleStatus: `.or(Ok(()))` is replaced by `?`.
SetRoleStatusPropagates ==
    /\ setRole.pc = "status"
    /\ \E r \in Results :
        SetRoleReturn("status", r, IF r = "Ok" THEN "Ok" ELSE "UIError")
    /\ UNCHANGED <<pipeline, exports, workspaces, input, output>>

\* Ok(_) => ui.status(Status::Updated, ..).or(Ok(()))  (lines 35-38)
SetRoleStatus ==
    /\ setRole.pc = "status"
    /\ \E r \in Results : SetRoleReturn("status", r, "Ok")
    /\ UNCHANGED <<pipeline, exports, workspaces, input, output>>

\* FORBIDDEN, NOT_FOUND: ui.fatal("Failed to update the role!")?
\* (lines 40, 46)
SetRoleFatal ==
    /\ setRole.pc = "fatal"
    /\ \E r \in Results :
        IF r = "Ok" THEN SetRoleGoto("fatal", r, "fatal_hint")
        ELSE SetRoleReturn("fatal", r, "UIError")
    /\ UNCHANGED <<pipeline, exports, workspaces, input, output>>

\* ui.fatal("This situation could arise, ..")?; Err(Error::APIClient(err))
\* (lines 41-43, 47-49)
SetRoleFatalHint ==
    /\ setRole.pc = "fatal_hint"
    /\ \E r \in Results :
        SetRoleReturn("fatal", r, IF r = "Ok" THEN "APIClientError" ELSE "UIError")
    /\ UNCHANGED <<pipeline, exports, workspaces, input, output>>

\* Err(e) => { ui.fatal(format!(..))?; Err(Error::from(e)) }  (lines 51-54)
SetRoleFatalOther ==
    /\ setRole.pc = "fatal_other"
    /\ \E r \in Results :
        SetRoleReturn("fatal", r, IF r = "Ok" THEN "ErrorFromAPIError" ELSE "UIError")
    /\ UNCHANGED <<pipeline, exports, workspaces, input, output>>

NextSetRole ==
    \/ SetRoleClientNew
    \/ SetRoleBegin
    \/ SetRoleConfirm
    \/ SetRoleUpdate
    \/ SetRoleStatus
    \/ SetRoleFatal
    \/ SetRoleFatalHint
    \/ SetRoleFatalOther

SpecSetRole == InitSetRole /\ [][NextSetRole]_vars

\* The calls of op in the history of start.
SetRoleCalls(op) == {i \in 1..Len(setRole.calls) : setRole.calls[i].op = op}

SetRoleReturned(op, res) ==
    \E i \in SetRoleCalls(op) : setRole.calls[i].res = res

\* C26: update_member_role is sent at most once per call of start, and
\* never when prompting is enabled and the user declines: start then returns
\* Ok at once, and the only use made of the API client was to build it.
C26_UpdateAtMostOnceNeverWhenDeclined ==
    /\ Cardinality(SetRoleCalls("update_member_role")) <= 1
    /\ SetRoleCalls("update_member_role") # {} =>
          (setRole.no_prompt \/ SetRoleReturned("prompt_yes_no", "Yes"))
    /\ SetRoleReturned("prompt_yes_no", "No") =>
          /\ ~setRole.no_prompt
          /\ SetRoleCalls("update_member_role") = {}
          /\ setRole.pc = "done"
          /\ setRole.result = "Ok"
          /\ setRole.calls[Len(setRole.calls)].op = "prompt_yes_no"

C26_Witness ==
    /\ ~setRole.no_prompt
    /\ SetRoleReturned("prompt_yes_no", "No")
    /\ setRole.pc = "done"
    /\ setRole.result = "Ok"
    /\ SetRoleCalls("update_member_role") = {}

\* C27: once update_member_role has been sent its result decides what start
\* returns: Ok if the call succeeded, also when ui.status fails; never Ok if
\* it failed (FORBIDDEN, NOT_FOUND or any other error).
C27_ApiResultDecidesOutcome ==
    (setRole.pc = "done" /\ SetRoleCalls("update_member_role") # {}) =>
        /\ SetRoleReturned("update_member_role", "Ok") => setRole.result = "Ok"
        /\ (\E a \in {"FORBIDDEN", "NOT_FOUND", "Other"} :
                SetRoleReturned("update_member_role", a)) => setRole.result # "Ok"

\* The role was updated, the status line could not be written.
C27_Witness ==
    /\ setRole.pc = "done"
    /\ SetRoleReturned("update_member_role", "Ok")
    /\ SetRoleReturned("status", "Err")
    /\ setRole.result = "Ok"

====
